---- MODULE Spec2Model ----
(***************************************************************************)
(* Model of pystemmer's setup.py: the LibrarySourceCode helper, the        *)
(* module-level choice of the C extension, and the bootstrap command.      *)
(* Paths and manifest lines are sequences of one-character strings; URLs,  *)
(* checksums and environment values are opaque strings.                    *)
(***************************************************************************)
EXTENDS Integers, Sequences, FiniteSets, TLC

VARIABLES environ, argv, disk, pc, log, linkMode, C_EXTENSION, resolved, acq,
          ndirect

vars == <<environ, argv, disk, pc, log, linkMode, C_EXTENSION, resolved, acq,
          ndirect>>

----------------------------------------------------------------------------
(* Python values and string primitives                                      *)

None == "<None>"
PyFalse == "<False>"
Unset == "<unset>"

Truthy_numeric(v) == v \notin {None, PyFalse, "", "0", "false"}

\* Python truth value of None, False or a str.
Truthy(v) == v \notin {None, PyFalse, ""}

\* Python's `a or b`.
Or(a, b) == IF Truthy(a) THEN a ELSE b

\* os.environ.get(name, default) on the toggle variable.
environ_get(env, default) == IF env = Unset THEN default ELSE env

Whitespace == {" ", "\t", "\n", "\r"}

RECURSIVE lstrip(_)
lstrip(s) ==
  IF s # <<>> /\ Head(s) \in Whitespace THEN lstrip(Tail(s)) ELSE s

RECURSIVE rstrip(_)
rstrip(s) ==
  IF s # <<>> /\ s[Len(s)] \in Whitespace
    THEN rstrip(SubSeq(s, 1, Len(s) - 1))
    ELSE s

\* str.strip()
strip(s) == rstrip(lstrip(s))

startswith(s, p) == Len(s) >= Len(p) /\ SubSeq(s, 1, Len(p)) = p

endswith(s, p) ==
  Len(s) >= Len(p) /\ SubSeq(s, Len(s) - Len(p) + 1, Len(s)) = p

\* str.replace(old, new): one left-to-right pass over non-overlapping matches.
RECURSIVE replace(_, _, _)
replace(s, old, new) ==
  IF s = <<>> THEN <<>>
  ELSE IF startswith(s, old)
    THEN new \o replace(SubSeq(s, Len(old) + 1, Len(s)), old, new)
    ELSE <<Head(s)>> \o replace(Tail(s), old, new)

\* str.rstrip('/')
RECURSIVE rstrip_slash(_)
rstrip_slash(s) ==
  IF s # <<>> /\ s[Len(s)] = "/"
    THEN rstrip_slash(SubSeq(s, 1, Len(s) - 1))
    ELSE s

\* str.rfind('/') + 1, counted in 1-based positions: 0 when there is no slash.
rfind_slash(s) ==
  IF \E i \in 1..Len(s) : s[i] = "/"
    THEN CHOOSE i \in 1..Len(s) :
           s[i] = "/" /\ \A j \in (i+1)..Len(s) : s[j] # "/"
    ELSE 0

AllSlashes(s) == \A i \in 1..Len(s) : s[i] = "/"

\* os.path.split(p) (posixpath): <<head, tail>>.
path_split(p) ==
  LET i == rfind_slash(p)
      head == SubSeq(p, 1, i)
      tail == SubSeq(p, i + 1, Len(p))
  IN  <<IF head # <<>> /\ ~AllSlashes(head) THEN rstrip_slash(head) ELSE head,
        tail>>

\* os.path.join(a, b) (posixpath) for two components.
path_join(a, b) ==
  IF startswith(b, <<"/">>) THEN b
  ELSE IF a = <<>> \/ endswith(a, <<"/">>) THEN a \o b
  ELSE a \o <<"/">> \o b

\* str.split('.')
RECURSIVE split_dot(_)
split_dot(s) ==
  IF \E i \in 1..Len(s) : s[i] = "."
    THEN LET i == CHOOSE k \in 1..Len(s) :
                    s[k] = "." /\ \A j \in 1..(k-1) : s[j] # "."
         IN  <<SubSeq(s, 1, i - 1)>> \o split_dot(SubSeq(s, i + 1, Len(s)))
    ELSE <<s>>

\* '.'.join(parts)
RECURSIVE join_dot(_)
join_dot(parts) ==
  IF parts = <<>> THEN <<>>
  ELSE IF Len(parts) = 1 THEN parts[1]
  ELSE parts[1] \o <<".">> \o join_dot(Tail(parts))

\* seq[0:n]
slice_to(seq, n) == SubSeq(seq, 1, IF Len(seq) < n THEN Len(seq) ELSE n)

----------------------------------------------------------------------------
(* Module constants of setup.py                                             *)

version_str == <<"3", ".", "0", ".", "0">>

libstemmer_c_version_two == join_dot(slice_to(split_dot(version_str), 2))

libstemmer_c_version == join_dot(slice_to(split_dot(version_str), 3))

src_c == <<"s", "r", "c", "_", "c">>
runtime == <<"r", "u", "n", "t", "i", "m", "e">>
libstemmer == <<"l", "i", "b", "s", "t", "e", "m", "m", "e", "r">>
include == <<"i", "n", "c", "l", "u", "d", "e">>

LIBRARY_CORE_DIRS == {src_c, runtime, libstemmer, include}

DEFAULT_URI == "https://snowballstem.org/dist/libstemmer_c-3.0.0.tar.gz"

DEFAULT_CHECKSUM ==
  "d4eca4485f6d3cb4387626a5f508b9b3489d24737525c23ba58026159497a8bc"

\* LibrarySourceCode.__init__'s default directory, 'libstemmer_c-%s'.
directory == libstemmer \o <<"_", "c", "-">> \o libstemmer_c_version

manifest_file_path ==
  path_join(directory, <<"m", "k", "i", "n", "c", "_", "u", "t", "f", "8",
                          ".", "m", "a", "k">>)

include_directories_bare == <<directory>>

include_directories == <<path_join(directory, include)>>

Stemmer_pyx == <<"s", "r", "c", "/", "S", "t", "e", "m", "m", "e", "r",
                 ".", "p", "y", "x">>

----------------------------------------------------------------------------
(* The disk: a function from the paths that exist to what is there.         *)

Dir == [kind |-> "dir", data |-> <<>>]
File(content) == [kind |-> "file", data |-> content]

\* os.path.exists
path_exists(d, p) == p \in DOMAIN d

is_present_on_disk(d) == path_exists(d, directory)

\* Iterating a text file: the lines, each keeping its newline.
RECURSIVE file_lines(_)
file_lines(content) ==
  IF content = <<>> THEN <<>>
  ELSE IF \E i \in 1..Len(content) : content[i] = "\n"
    THEN LET i == CHOOSE k \in 1..Len(content) :
                    content[k] = "\n" /\ \A j \in 1..(k-1) : content[j] # "\n"
         IN  <<SubSeq(content, 1, i)>>
               \o file_lines(SubSeq(content, i + 1, Len(content)))
    ELSE <<content>>

iter_manifest_lines_lenient(d) ==
  IF path_exists(d, manifest_file_path) /\ d[manifest_file_path].kind = "file"
    THEN [ok |-> TRUE, lines |-> file_lines(d[manifest_file_path].data)]
    ELSE [ok |-> TRUE, lines |-> <<>>]

\* open() raises when the manifest is not a readable file: ok = FALSE.
iter_manifest_lines(d) ==
  IF path_exists(d, manifest_file_path) /\ d[manifest_file_path].kind = "file"
    THEN [ok |-> TRUE, lines |-> file_lines(d[manifest_file_path].data)]
    ELSE [ok |-> FALSE, lines |-> <<>>]

Marker == <<" ", "\\">>

RECURSIVE collect_paths_trailing_marker(_, _)
collect_paths_trailing_marker(lines, paths) ==
  IF lines = <<>> THEN paths
  ELSE LET s == strip(Head(lines))
           line == IF endswith(s, Marker) THEN SubSeq(s, 1, Len(s) - 2) ELSE s
           dir == path_split(line)[1]
       IN  collect_paths_trailing_marker(Tail(lines),
             IF endswith(line, <<".", "c">>) /\ dir \in LIBRARY_CORE_DIRS
               THEN paths \cup {path_join(directory, line)}
               ELSE paths)

\* The loop of source_code_paths over the manifest's lines.
RECURSIVE collect_paths(_, _)
collect_paths(lines, paths) ==
  IF lines = <<>> THEN paths
  ELSE LET line == replace(strip(Head(lines)), Marker, <<>>)
           dir == path_split(line)[1]
       IN  collect_paths(Tail(lines),
             IF endswith(line, <<".", "c">>) /\ dir \in LIBRARY_CORE_DIRS
               THEN paths \cup {path_join(directory, line)}
               ELSE paths)

\* LibrarySourceCode.source_code_paths: ok = FALSE when open() raised.
source_code_paths(d) ==
  LET it == iter_manifest_lines(d)
  IN  IF it.ok THEN [ok |-> TRUE, paths |-> collect_paths(it.lines, {})]
               ELSE [ok |-> FALSE, paths |-> {}]

----------------------------------------------------------------------------
(* The archive server, and download_and_extract_tarball of tarballfetcher.  *)
(* tarballfetcher is a module of its own: its three stages follow the       *)
(* documented behaviour of the fetcher, the verifier and the extractor.     *)

OVERRIDE_URI == "https://example.org/mirror/libstemmer_c.tar.gz"

OVERRIDE_CHECKSUM ==
  "5f2c0a3e9b7d41c68e0f1a2b3c4d5e6f708192a3b4c5d6e7f8091a2b3c4d5e6f"

DEFAULT_CHECKSUM_UPPER ==
  "D4ECA4485F6D3CB4387626A5F508B9B3489D24737525C23BA58026159497A8BC"

TAMPERED_DIGEST ==
  "0bad0bad0bad0bad0bad0bad0bad0bad0bad0bad0bad0bad0bad0bad0bad0bad"

Archives == {"release", "tampered", "mirror"}

Sha256(bytes) ==
  CASE bytes = "release" -> DEFAULT_CHECKSUM
    [] bytes = "mirror" -> OVERRIDE_CHECKSUM
    [] OTHER -> TAMPERED_DIGEST

\* str.lower() on a hex digest.
Lower(digest) ==
  IF digest = DEFAULT_CHECKSUM_UPPER THEN DEFAULT_CHECKSUM ELSE digest

NL == <<"\n">>

ManifestRelease ==
  src_c \o <<"/", "a", ".", "c", " ", "\\">> \o NL
    \o include \o <<"/", "a", ".", "c">> \o NL
    \o <<"a", "/", "a", ".", "c">> \o NL

ManifestTampered ==
  src_c \o <<"/", "a", ".", "c">> \o NL \o runtime \o <<"/", "a", ".", "c">>

\* What an archive unpacks to: the "mirror" tree has no manifest.
ArchiveTree(bytes) ==
  CASE bytes = "release" -> [has_manifest |-> TRUE, manifest |-> ManifestRelease]
    [] bytes = "tampered" -> [has_manifest |-> TRUE, manifest |-> ManifestTampered]
    [] OTHER -> [has_manifest |-> FALSE, manifest |-> <<>>]

\* One directory per version, named from the three-component version string.
DistributionDirectory ==
  <<"l", "i", "b", "s", "t", "e", "m", "m", "e", "r", "_", "c", "-",
    "3", ".", "0", ".", "0">>

DistributionManifest ==
  DistributionDirectory
    \o <<"/", "m", "k", "i", "n", "c", "_", "u", "t", "f", "8", ".", "m", "a", "k">>

DistributionInclude ==
  DistributionDirectory \o <<"/", "i", "n", "c", "l", "u", "d", "e">>

\* The extractor on full success: the tree laid over what is there.
Extracted(d, bytes) ==
  LET tree == ArchiveTree(bytes)
      dirs == [p \in {DistributionDirectory, DistributionInclude} |-> Dir]
      files == IF tree.has_manifest
                 THEN [p \in {DistributionManifest} |-> File(tree.manifest)]
                 ELSE <<>>
  IN  files @@ dirs @@ d

\* What the outside world does to one call: the server, what it serves, and
\* whether unpacking runs to completion.
Worlds == [net : {"up", "down"}, bytes : Archives, extract : {"ok", "fail"}]

Event(op, a, b) == [op |-> op, a |-> a, b |-> b]

\* Fetch, then verify, then extract; a failed stage raises and leaves the
\* disk as it was.
download_and_extract_tarball(d, lg, url, expected_sha256, w) ==
  LET lg1 == Append(lg, Event("fetch", url,
                              IF w.net = "up" THEN w.bytes ELSE "NetworkError"))
      lg2 == Append(lg1, Event("verify", expected_sha256, Sha256(w.bytes)))
      lg3 == Append(lg2, Event("extract", w.bytes, w.extract))
  IN  IF w.net # "up"
        THEN [disk |-> d, ok |-> FALSE,
              log |-> Append(lg1, Event("raise", "NetworkError", ""))]
      ELSE IF Lower(Sha256(w.bytes)) # Lower(expected_sha256)
        THEN [disk |-> d, ok |-> FALSE,
              log |-> Append(lg2, Event("raise", "ChecksumMismatchError", ""))]
      ELSE IF w.extract # "ok"
        THEN [disk |-> d, ok |-> FALSE,
              log |-> Append(lg3, Event("raise", "ExtractionError", ""))]
      ELSE [disk |-> Extracted(d, w.bytes), ok |-> TRUE, log |-> lg3]

----------------------------------------------------------------------------
(* LibrarySourceCode.download and the module-level code                     *)

download_args_default_checksum(url, checksum) ==
  <<Or(url, DEFAULT_URI), DEFAULT_CHECKSUM>>

\* The two arguments download hands to download_and_extract_tarball.
download_args(url, checksum) ==
  <<Or(url, DEFAULT_URI), Or(checksum, DEFAULT_CHECKSUM)>>

\* LibrarySourceCode.download(url, checksum)
download(d, lg, url, checksum, w) ==
  LET args == download_args(url, checksum)
  IN  download_and_extract_tarball(
        d, Append(lg, Event("download", url, checksum)), args[1], args[2], w)

NoExtension ==
  [built |-> FALSE, name |-> "", sources |-> <<>>, libraries |-> <<>>,
   include_dirs |-> <<>>]

SystemExtension_nolib ==
  [built |-> TRUE, name |-> "Stemmer", sources |-> <<Stemmer_pyx>>,
   libraries |-> <<>>, include_dirs |-> <<>>]

\* Extension('Stemmer', ['src/Stemmer.pyx'], libraries=['stemmer'])
SystemExtension ==
  [built |-> TRUE, name |-> "Stemmer", sources |-> <<Stemmer_pyx>>,
   libraries |-> <<"stemmer">>, include_dirs |-> <<>>]

\* Extension('Stemmer', ['src/Stemmer.pyx'] + list(paths), include_dirs=...)
VendoredExtension(listed) ==
  [built |-> TRUE, name |-> "Stemmer", sources |-> <<Stemmer_pyx>> \o listed,
   libraries |-> <<>>, include_dirs |-> include_directories]

Range(seq) == {seq[i] : i \in 1..Len(seq)}

\* list(a_set): the elements once each, in an order the caller cannot choose.
Listings(S) ==
  {q \in [1..Cardinality(S) -> S] : Range(q) = S}

CountOps(lg, from, op) ==
  Cardinality({i \in (from + 1)..Len(lg) : lg[i].op = op})

\* What one call of download did, for the call that ran last.
AcqRecord(n, d, lg, url, r) ==
  [n |-> n, pre_present |-> is_present_on_disk(d), ok |-> r.ok, url |-> url,
   fetches |-> CountOps(r.log, Len(lg), "fetch"),
   verifies |-> CountOps(r.log, Len(lg), "verify"),
   changed |-> r.disk # d]

NoAcq ==
  [n |-> 0, pre_present |-> FALSE, ok |-> FALSE, url |-> None, fetches |-> 0,
   verifies |-> 0, changed |-> FALSE]

----------------------------------------------------------------------------
(* The run of setup.py: module load, then the command setup() dispatches.   *)

MaxDirectCalls == 1

EnvValues == {Unset, "", "0", "false", "1"}

UrlOptions == {None, "", OVERRIDE_URI}

ChecksumOptions == {None, OVERRIDE_CHECKSUM, DEFAULT_CHECKSUM_UPPER}

Commands ==
  {[cmd |-> "build", url |-> None, sha256 |-> None]}
    \cup [cmd : {"bootstrap"}, url : UrlOptions, sha256 : ChecksumOptions]

InitialDisks ==
  {<<>>,
   [p \in {DistributionDirectory} |-> Dir],
   Extracted(<<>>, "release"),
   Extracted(<<>>, "tampered")}

Init ==
  /\ environ \in EnvValues
  /\ argv \in Commands
  /\ disk \in InitialDisks
  /\ pc = "start"
  /\ log = <<>>
  /\ linkMode = "none"
  /\ C_EXTENSION = NoExtension
  /\ resolved = [ok |-> FALSE, paths |-> {}]
  /\ acq = NoAcq
  /\ ndirect = 0

\* Lines 115-131: the toggle is read and C_EXTENSION is built.
ModuleLoad ==
  /\ pc = "start"
  /\ UNCHANGED <<environ, argv, ndirect>>
  /\ LET SYSTEM_LIBSTEMMER == environ_get(environ, PyFalse)
     IN  IF Truthy(SYSTEM_LIBSTEMMER)
           THEN /\ linkMode' = "SYSTEM_LIBRARY"
                /\ C_EXTENSION' = SystemExtension
                /\ pc' = "loaded"
                /\ UNCHANGED <<disk, log, resolved, acq>>
           ELSE \E w \in Worlds :
                  LET present == is_present_on_disk(disk)
                      lg1 == Append(log, Event("exists", "",
                                               IF present THEN "True" ELSE "False"))
                      r == IF present
                             THEN [disk |-> disk, ok |-> TRUE, log |-> lg1]
                             ELSE download(disk, lg1, None, None, w)
                      paths == source_code_paths(r.disk)
                  IN  /\ linkMode' = "VENDORED"
                      /\ disk' = r.disk
                      /\ acq' = IF present THEN acq
                                ELSE AcqRecord(acq.n + 1, disk, lg1, None, r)
                      /\ IF ~r.ok
                           THEN /\ pc' = "error"
                                /\ log' = r.log
                                /\ UNCHANGED <<C_EXTENSION, resolved>>
                           ELSE /\ log' = Append(r.log, Event("open", "", ""))
                                /\ resolved' = paths
                                /\ IF ~paths.ok
                                     THEN /\ pc' = "error"
                                          /\ UNCHANGED C_EXTENSION
                                     ELSE /\ pc' = "loaded"
                                          /\ \E listed \in Listings(paths.paths) :
                                               C_EXTENSION' = VendoredExtension(listed)

\* BootstrapCommand: initialize_options, the parsed options, then run.
RunBootstrap ==
  /\ pc = "loaded"
  /\ argv.cmd = "bootstrap"
  /\ \E w \in Worlds :
       LET libstemmer_url == IF argv.url = None THEN DEFAULT_URI ELSE argv.url
           libstemmer_sha256 ==
             IF argv.sha256 = None THEN DEFAULT_CHECKSUM ELSE argv.sha256
           r == download(disk, log, libstemmer_url, libstemmer_sha256, w)
       IN  /\ disk' = r.disk
           /\ log' = r.log
           /\ acq' = AcqRecord(acq.n + 1, disk, log, libstemmer_url, r)
           /\ pc' = IF r.ok THEN "done" ELSE "error"
  /\ UNCHANGED <<environ, argv, linkMode, C_EXTENSION, resolved, ndirect>>

\* setup() with any other command: the extension goes to the build, which is
\* not part of this program.
RunBuild ==
  /\ pc = "loaded"
  /\ argv.cmd = "build"
  /\ pc' = "done"
  /\ UNCHANGED <<environ, argv, disk, log, linkMode, C_EXTENSION, resolved,
                 acq, ndirect>>

\* LIBRARY_SOURCE_CODE.download(url, checksum) called by a user of the module.
DownloadDirect ==
  /\ pc = "done"
  /\ ndirect < MaxDirectCalls
  /\ \E url \in UrlOptions, checksum \in ChecksumOptions, w \in Worlds :
       LET r == download(disk, log, url, checksum, w)
       IN  /\ disk' = r.disk
           /\ log' = r.log
           /\ acq' = AcqRecord(acq.n + 1, disk, log, url, r)
  /\ ndirect' = ndirect + 1
  /\ UNCHANGED <<environ, argv, pc, linkMode, C_EXTENSION, resolved>>

Next == ModuleLoad \/ RunBootstrap \/ RunBuild \/ DownloadDirect

Spec == Init /\ [][Next]_vars

----------------------------------------------------------------------------
(* source_code_paths on its own, over manifests put together from pieces.   *)

MaxFrags == 5

Frags ==
  {src_c \o <<"/">>, <<"a">>, <<".", "c">>, <<" ">>, <<"\\">>, NL, <<"/">>}

RECURSIVE Contents(_)
Contents(n) ==
  IF n = 0 THEN {<<>>}
  ELSE LET shorter == Contents(n - 1)
       IN  shorter \cup {c \o f : c \in shorter, f \in Frags}

InitManifest ==
  /\ environ = Unset
  /\ argv = [cmd |-> "build", url |-> None, sha256 |-> None]
  /\ \E content \in Contents(MaxFrags) :
       disk = [p \in {DistributionManifest} |-> File(content)]
                @@ [p \in {DistributionDirectory} |-> Dir]
  /\ pc = "start"
  /\ log = <<>>
  /\ linkMode = "none"
  /\ C_EXTENSION = NoExtension
  /\ resolved = [ok |-> FALSE, paths |-> {}]
  /\ acq = NoAcq
  /\ ndirect = 0

CallSourceCodePaths ==
  /\ pc = "start"
  /\ resolved' = source_code_paths(disk)
  /\ pc' = "done"
  /\ UNCHANGED <<environ, argv, disk, log, linkMode, C_EXTENSION, acq, ndirect>>

NextManifest == CallSourceCodePaths

SpecManifest == InitManifest /\ [][NextManifest]_vars

----------------------------------------------------------------------------
(* Manifest entries, stated by position instead of by scanning              *)

Max(S) == CHOOSE x \in S : \A y \in S : y <= x
Min(S) == CHOOSE x \in S : \A y \in S : x <= y

\* The line without its surrounding whitespace.
Stripped(l) ==
  LET solid == {i \in 1..Len(l) : l[i] \notin {" ", "\t", "\n", "\r"}}
  IN  IF solid = {} THEN <<>> ELSE SubSeq(l, Min(solid), Max(solid))

\* Position i of s lies in an occurrence of space-backslash.
InMarker(s, i) ==
  \/ i < Len(s) /\ s[i] = " " /\ s[i + 1] = "\\"
  \/ i > 1 /\ s[i] = "\\" /\ s[i - 1] = " "

\* The characters of s at the positions of keep, in order.
Pick(s, keep) ==
  [k \in 1..Cardinality(keep) |->
     s[CHOOSE i \in keep : Cardinality({j \in keep : j <= i}) = k]]

\* s with every occurrence of space-backslash left out.
WithoutMarkers(s) == Pick(s, {i \in 1..Len(s) : ~InMarker(s, i)})

\* s with one space-backslash at its end left out.
WithoutTrailingMarker(s) ==
  IF Len(s) >= 2 /\ s[Len(s) - 1] = " " /\ s[Len(s)] = "\\"
    THEN SubSeq(s, 1, Len(s) - 2)
    ELSE s

Slashes(e) == {i \in 1..Len(e) : e[i] = "/"}

\* What precedes the last slash, less the slashes that end it.
DirComponent(e) ==
  IF Slashes(e) = {} THEN <<>>
  ELSE LET k == Max(Slashes(e))
           named == {m \in 1..k : e[m] # "/"}
       IN  IF named = {} THEN SubSeq(e, 1, k) ELSE SubSeq(e, 1, Max(named))

FileName(e) ==
  IF Slashes(e) = {} THEN e ELSE SubSeq(e, Max(Slashes(e)) + 1, Len(e))

IsCoreSource(e) ==
  /\ DirComponent(e) \in {<<"s", "r", "c", "_", "c">>,
                          <<"r", "u", "n", "t", "i", "m", "e">>,
                          <<"l", "i", "b", "s", "t", "e", "m", "m", "e", "r">>,
                          <<"i", "n", "c", "l", "u", "d", "e">>}
  /\ Len(FileName(e)) >= 2
  /\ FileName(e)[Len(FileName(e)) - 1] = "."
  /\ FileName(e)[Len(FileName(e))] = "c"

ManifestLines == Range(file_lines(disk[DistributionManifest].data))

PathsOf(entries) ==
  {DistributionDirectory \o <<"/">> \o e : e \in {x \in entries : IsCoreSource(x)}}

----------------------------------------------------------------------------
(* Claims                                                                   *)

\* C1 (as stated): source_code_paths returns exactly the paths
\* directory/<entry> of the entries in a core directory whose filename ends
\* with '.c', an entry being the stripped line with a trailing continuation
\* marker removed.
C1_TrailingMarkerExact ==
  pc = "done" =>
    /\ resolved.ok
    /\ resolved.paths =
         PathsOf({WithoutTrailingMarker(Stripped(l)) : l \in ManifestLines})

\* C1 (amended): source_code_paths returns exactly the paths directory/<entry>
\* of the entries in a core directory whose filename ends with '.c', an entry
\* being the stripped line with every space-backslash pair removed; no
\* matching entry is missing, no other is included, duplicates are one element.
C1_AllMarkersExact ==
  pc = "done" =>
    /\ resolved.ok
    /\ resolved.paths =
         PathsOf({WithoutMarkers(Stripped(l)) : l \in ManifestLines})

\* Two lines that give one path, next to a line in no core directory.
C1_Witness ==
  /\ pc = "done"
  /\ Cardinality(ManifestLines) >= 2
  /\ Cardinality(resolved.paths) = 1

\* A manifest line with the pair inside it that still gives a path.
C1_WitnessInner ==
  /\ pc = "done"
  /\ resolved.paths # {}
  /\ \E l \in ManifestLines :
       /\ WithoutMarkers(Stripped(l)) # WithoutTrailingMarker(Stripped(l))
       /\ IsCoreSource(WithoutMarkers(Stripped(l)))


ToggleOn == environ \notin {"<unset>", ""}

Ops(op) == {i \in 1..Len(log) : log[i].op = op}

\* C2 (as stated): a download called while the directory exists returns at
\* once: no fetch, no verification, and the disk is left as it was.
C2_AcquireIdempotent ==
  (acq.n > 0 /\ acq.pre_present) =>
    (acq.fetches = 0 /\ acq.verifies = 0 /\ ~acq.changed)

\* C3: with the toggle on, module load calls neither download nor the
\* presence check nor the manifest reader, and the extension has the binding's
\* source alone, no include directories, and the library 'stemmer'.
C3_SystemModeSkipsAcquisition ==
  (ToggleOn /\ pc # "start") =>
    /\ C_EXTENSION =
         [built |-> TRUE, name |-> "Stemmer",
          sources |-> <<<<"s", "r", "c", "/", "S", "t", "e", "m", "m", "e", "r",
                          ".", "p", "y", "x">>>>,
          libraries |-> <<"stemmer">>, include_dirs |-> <<>>]
    /\ Ops("exists") = {} /\ Ops("open") = {}
    /\ resolved = [ok |-> FALSE, paths |-> {}]
    /\ acq.n = 0 => (log = <<>> /\ pc # "error")

\* The toggle is on, the directory is absent, and the module has loaded.
C3_Witness ==
  /\ ToggleOn
  /\ pc = "loaded"
  /\ DistributionDirectory \notin DOMAIN disk
  /\ C_EXTENSION.built

\* C4: with the toggle off and the directory present, module load downloads
\* nothing, always reads the manifest, and the sources are the binding's source
\* followed by exactly the resolved set, the include directories the one path
\* <directory>/include.
C4_VendoredPresentResolves ==
  (~ToggleOn /\ pc # "start" /\ acq.n = 0
     /\ DistributionDirectory \in DOMAIN disk) =>
    /\ log = <<Event("exists", "", "True"), Event("open", "", "")>>
    /\ DistributionManifest \in DOMAIN disk =>
         LET expected == PathsOf({WithoutMarkers(Stripped(l)) : l \in ManifestLines})
         IN  /\ pc # "error"
             /\ C_EXTENSION.built
             /\ resolved = [ok |-> TRUE, paths |-> expected]
             /\ Head(C_EXTENSION.sources) =
                  <<"s", "r", "c", "/", "S", "t", "e", "m", "m", "e", "r",
                    ".", "p", "y", "x">>
             /\ Range(Tail(C_EXTENSION.sources)) = expected
             /\ Len(C_EXTENSION.sources) = 1 + Cardinality(expected)
             /\ C_EXTENSION.include_dirs = <<DistributionInclude>>

\* Loaded in vendored mode from a directory that was there, two sources found.
C4_Witness ==
  /\ ~ToggleOn
  /\ pc = "loaded"
  /\ acq.n = 0
  /\ Len(C_EXTENSION.sources) = 3
  /\ Ops("fetch") = {}

\* C5 (as stated): after a download that failed at any stage the presence
\* check does not report the distribution as present.
C5_FailedAcquireNotPresent ==
  (acq.n > 0 /\ ~acq.ok) => ~is_present_on_disk(disk)

C7_BootstrapUsesOnlyOverrides ==
  (/\ argv.cmd = "bootstrap"
   /\ argv.url \notin {"<None>", "", DEFAULT_URI}
   /\ argv.sha256 \notin {"<None>", "", DEFAULT_CHECKSUM, DEFAULT_CHECKSUM_UPPER}
   /\ ndirect = 0) =>
    \A i \in 1..Len(log) :
      /\ ~(log[i].op = "fetch" /\ log[i].a = DEFAULT_URI)
      /\ ~(log[i].op = "verify" /\ log[i].a = DEFAULT_CHECKSUM)

C9_MissingManifestAborts ==
  (Ops("open") # {} /\ DistributionManifest \notin DOMAIN disk) =>
    /\ resolved = [ok |-> FALSE, paths |-> {}]
    /\ ~C_EXTENSION.built
    /\ pc = "error"

\* Resolution ran on a directory that exists and holds no manifest.
C9_Witness ==
  /\ Ops("open") # {}
  /\ DistributionManifest \notin DOMAIN disk
  /\ DistributionDirectory \in DOMAIN disk
  /\ pc = "error"

\* C10: after module load exactly one mode is selected, VENDORED exactly when
\* the toggle is unset or empty and SYSTEM_LIBRARY for every other value,
\* whatever the disk holds.
C10_ModeFollowsToggle ==
  pc # "start" =>
    /\ linkMode \in {"VENDORED", "SYSTEM_LIBRARY"}
    /\ linkMode = "VENDORED" <=> environ \in {"<unset>", ""}
    /\ linkMode = "SYSTEM_LIBRARY" <=> environ \in {"0", "false", "1"}

\* The toggle is '0', the directory is there, and the system library is used.
C10_Witness ==
  /\ pc = "loaded"
  /\ environ = "0"
  /\ DistributionDirectory \in DOMAIN disk
  /\ linkMode = "SYSTEM_LIBRARY"

====
